---- MODULE Spec2Model ----
(***************************************************************************)
(* A model of fatresize (src/fatresize.c): the size parser get_size, the   *)
(* libparted exception handler fatresize_handler with ask_for_option, the  *)
(* boundary snapper snap_to_boundaries, and main, which sequences them     *)
(* around the libparted calls.                                             *)
(*                                                                         *)
(* Texts are sequences of one-character strings.  A PedSector / long long   *)
(* is a 64-bit two's complement number kept as four 16-bit limbs, least    *)
(* significant first, so that strtoll's range check and the wrap-around of *)
(* the unchecked multiplications of get_size are those of the C type.      *)
(* libparted itself is not part of the repository: each of its calls is a  *)
(* step whose result the environment chooses.                              *)
(***************************************************************************)
EXTENDS Integers, Sequences, FiniteSets, TLC

VARIABLES
  s,          \* get_size: the text handed to it (optarg)
  ret,        \* get_size: what the call produced
  ex,         \* handler: the PedException received (type, options)
  mpc,        \* handler: position of the handler
  line,       \* handler: the last line getline returned, as read
  stdin_eof,  \* handler: stdin has no further byte
  nread,      \* handler: number of getline calls so far
  choice,     \* handler: the option the handler returned
  opts,       \* the global opts structure
  pc,         \* main: position
  dev,        \* main: the PedDevice (length in sectors), once obtained
  table,      \* main: the partitions of the PedDisk, once read
  held,       \* main: the handles the run holds
  geo,        \* main: the locals part_geom, start, end, range_*, new_geom
  fx,         \* main: the requests made to the disk and the filesystem
  exit_code,  \* main: the process's exit status, -1 while it runs
  outcome     \* main: how the run ended

vars == <<s, ret, ex, mpc, line, stdin_eof, nread, choice, opts, pc, dev,
          table, held, geo, fx, exit_code, outcome>>

parserVars == <<s, ret>>
handlerVars == <<ex, mpc, line, stdin_eof, nread, choice>>
mainVars == <<pc, dev, table, held, geo, fx, exit_code, outcome>>

-----------------------------------------------------------------------------
(* Bounds of the model *)

\* longest run of digits the magnitudes of the parser's inputs are built from
MaxDigits == 2
\* number of getline calls one prompt may make
MaxReads == 2
\* sectors of the modelled device (dev->length)
DevLength == 8
\* most entries a partition table holds
MaxParts == 3
\* sectors per step of the display unit ped_unit_format rounds to
UnitSectors == 4

-----------------------------------------------------------------------------
(* 64-bit arithmetic on limbs *)

Limb == 2^16
HalfLimb == 2^15

Zero64 == <<0, 0, 0, 0>>
LLONG_MAX == <<Limb - 1, Limb - 1, Limb - 1, HalfLimb - 1>>

\* x * m + d on unsigned 64 bits: the low 64 bits and what was carried out
MulAdd64(x, m, d) ==
  LET p1 == x[1] * m + d
      p2 == x[2] * m + (p1 \div Limb)
      p3 == x[3] * m + (p2 \div Limb)
      p4 == x[4] * m + (p3 \div Limb)
  IN [val |-> <<p1 % Limb, p2 % Limb, p3 % Limb, p4 % Limb>>,
      carry |-> p4 \div Limb]

IsNeg64(x) == x[4] >= HalfLimb
IsZero64(x) == x = Zero64

\* two's complement negation
Neg64(x) ==
  MulAdd64(<<Limb - 1 - x[1], Limb - 1 - x[2], Limb - 1 - x[3], Limb - 1 - x[4]>>,
           1, 1).val

\* quotient and remainder of an unsigned 64-bit number by a small divisor
DivMod64(x, d) ==
  LET t4 == x[4]
      t3 == (t4 % d) * Limb + x[3]
      t2 == (t3 % d) * Limb + x[2]
      t1 == (t2 % d) * Limb + x[1]
  IN [quot |-> <<t1 \div d, t2 \div d, t3 \div d, t4 \div d>>, rem |-> t1 % d]

\* a small natural number as a 64-bit number, and back
FromNat(n) == <<n % Limb, n \div Limb, 0, 0>>
FitsNat(x) == x[3] = 0 /\ x[4] = 0 /\ x[2] < HalfLimb
ToNat(x) == x[1] + Limb * x[2]

-----------------------------------------------------------------------------
(* get_size *)

DigitChars == <<"0", "1", "2", "3", "4", "5", "6", "7", "8", "9">>
IsDigit(c) == \E i \in 1..10 : DigitChars[i] = c
DigitVal(c) == (CHOOSE i \in 1..10 : DigitChars[i] = c) - 1

MAX_SIZE_STR == <<"m", "a", "x">>

\* strncmp(a, b, n) == 0 for texts (the terminating NUL ends a comparison)
Strncmp0(a, b, n) ==
  \/ (Len(a) >= n /\ Len(b) >= n /\ SubSeq(a, 1, n) = SubSeq(b, 1, n))
  \/ (Len(a) < n /\ a = b)

\* the digits strtoll consumes from the front of t
RECURSIVE DigitRun(_)
DigitRun(t) ==
  IF t # <<>> /\ IsDigit(Head(t)) THEN <<Head(t)>> \o DigitRun(Tail(t)) ELSE <<>>

\* the magnitude of a run of digits; over: it left the unsigned 64 bits
RECURSIVE Accumulate(_, _, _)
Accumulate(digits, acc, over) ==
  IF digits = <<>> THEN [mag |-> acc, over |-> over]
  ELSE LET r == MulAdd64(acc, 10, DigitVal(Head(digits)))
       IN Accumulate(Tail(digits), r.val, over \/ r.carry > 0)

\* strtoll(t, &suffix, 10): the value, whether errno became ERANGE, the rest
Strtoll(t) ==
  LET signed == t # <<>> /\ Head(t) \in {"-", "+"}
      minus == t # <<>> /\ Head(t) = "-"
      body == IF signed THEN Tail(t) ELSE t
      digits == DigitRun(body)
      a == Accumulate(digits, Zero64, FALSE)
      tooBig == IF minus
                THEN a.over \/ (IsNeg64(a.mag) /\ a.mag # <<0, 0, 0, HalfLimb>>)
                ELSE a.over \/ IsNeg64(a.mag)
  IN IF digits = <<>>
     THEN [val |-> Zero64, erange |-> FALSE, suffix |-> t]
     ELSE [val |-> IF tooBig THEN (IF minus THEN <<0, 0, 0, HalfLimb>> ELSE LLONG_MAX)
                   ELSE IF minus THEN Neg64(a.mag) ELSE a.mag,
           erange |-> tooBig,
           suffix |-> SubSeq(body, Len(digits) + 1, Len(body))]

\* the multiplier the suffix selects (lines 105, 119-120)
PrefixKind(suffix) ==
  IF Len(suffix) = 2 /\ suffix[2] = "i" THEN 1024 ELSE 1000

\* a mutant of Ladder: every case of the switch ends in a break
LadderNoFallThrough(c) ==
  IF c \in {"G", "M", "k"} THEN 1 ELSE 0

\* the number of multiplications the switch performs for a suffix letter: the
\* cases G, M and k fall through to one another; 0 stands for the default case
Ladder(c) ==
  IF c = "G" THEN 3 ELSE IF c = "M" THEN 2 ELSE IF c = "k" THEN 1 ELSE 0

\* size *= prefix_kind, n times, on long long: the wrapped value, and whether
\* a multiplication overflowed the signed type
RECURSIVE Cascade(_, _, _, _)
Cascade(size, kind, n, overflowed) ==
  IF n = 0 THEN [val |-> size, overflowed |-> overflowed]
  ELSE LET r == MulAdd64(size, kind, 0)
       IN Cascade(r.val, kind, n - 1,
                  overflowed \/ r.carry > 0 \/ IsNeg64(r.val) \/ IsNeg64(size))

Exit(code) == [kind |-> "exit", code |-> code, value |-> Zero64]
Size(v) == [kind |-> "size", code |-> 0, value |-> v]
Trap == [kind |-> "trap", code |-> 0, value |-> Zero64]
Pending == [kind |-> "pending", code |-> 0, value |-> Zero64]

\* The outcomes of get_size(t).  usage(1) ends the process with status 1.  A
\* multiplication that overflows long long is undefined: the build either
\* delivers the wrapped product or traps.
get_size(t) ==
  IF Strncmp0(t, MAX_SIZE_STR, Len(MAX_SIZE_STR)) THEN {Size(LLONG_MAX)}
  ELSE LET p == Strtoll(t)
       IN IF IsNeg64(p.val) \/ IsZero64(p.val) \/ p.erange THEN {Exit(1)}
          ELSE IF p.suffix = <<>> THEN {Size(p.val)}
          ELSE IF Len(p.suffix) > 1 /\ ~(Len(p.suffix) = 2 /\ p.suffix[2] = "i")
               THEN {Exit(1)}
          ELSE IF Ladder(p.suffix[1]) = 0 THEN {Exit(1)}
          ELSE LET c == Cascade(p.val, PrefixKind(p.suffix), Ladder(p.suffix[1]), FALSE)
               IN IF c.overflowed THEN {Size(c.val), Trap} ELSE {Size(c.val)}

-----------------------------------------------------------------------------
(* Values of the variables a specification leaves untouched *)

\* opts after the memset and opts.pnum = -1 of main (lines 482, 488)
OptsAtStart ==
  [device |-> FALSE, pnum |-> -1, size |-> Zero64, info |-> FALSE,
   force_yes |-> FALSE]

NoException == [type |-> "none", options |-> 0]
NoGeometry == [start |-> 0, end |-> -1, length |-> 0]

ParserIdle == s = <<>> /\ ret = Pending

HandlerIdle ==
  /\ ex = NoException
  /\ mpc = "idle"
  /\ line = <<>>
  /\ stdin_eof = FALSE
  /\ nread = 0
  /\ choice = 0

NoHandles ==
  [dev |-> FALSE, dev_open |-> FALSE, disk |-> FALSE, fs |-> 0, constraints |-> 0]
NoLocals ==
  [part |-> 0, part_geom |-> NoGeometry, max_size |-> 0, start |-> 0, end |-> 0,
   range_start |-> NoGeometry, range_end |-> NoGeometry,
   new_geom |-> NoGeometry, fs_geom |-> NoGeometry]
NoRequests ==
  [set_geom |-> 0, geom_ok |-> FALSE, resize |-> 0, resize_ok |-> FALSE,
   set_system |-> 0, commit |-> 0, queried |-> FALSE, printed |-> FALSE]

MainIdle ==
  /\ pc = "idle"
  /\ dev = 0
  /\ table = <<>>
  /\ held = NoHandles
  /\ geo = NoLocals
  /\ fx = NoRequests
  /\ exit_code = -1
  /\ outcome = "running"

-----------------------------------------------------------------------------
(* The size parser on its own: get_size applied to one text *)

Chars(ds) == [i \in 1..Len(ds) |-> DigitChars[ds[i] + 1]]

DigitPool == {"0", "1", "5"}
ShortMagnitudes == UNION {[1..k -> DigitPool] : k \in 1..MaxDigits}

\* magnitudes around the ends of the 64-bit range: LLONG_MAX and its
\* successor, and the largest magnitudes (and their successors) that k, ki
\* and Gi still take, 2^54 (times 1024: 2^64) and one whose product by 1000
\* is 2^64 + 384
LongMagnitudes ==
  { Chars(<<9,2,2,3,3,7,2,0,3,6,8,5,4,7,7,5,8,0,7>>),
    Chars(<<9,2,2,3,3,7,2,0,3,6,8,5,4,7,7,5,8,0,8>>),
    Chars(<<9,2,2,3,3,7,2,0,3,6,8,5,4,7,7,5>>),
    Chars(<<9,2,2,3,3,7,2,0,3,6,8,5,4,7,7,6>>),
    Chars(<<9,0,0,7,1,9,9,2,5,4,7,4,0,9,9,1>>),
    Chars(<<9,0,0,7,1,9,9,2,5,4,7,4,0,9,9,2>>),
    Chars(<<8,5,8,9,9,3,4,5,9,1>>),
    Chars(<<8,5,8,9,9,3,4,5,9,2>>),
    Chars(<<1,8,0,1,4,3,9,8,5,0,9,4,8,1,9,8,4>>),
    Chars(<<1,8,4,4,6,7,4,4,0,7,3,7,0,9,5,5,2>>) }

Magnitudes ==
  ShortMagnitudes \cup {<<"-">> \o m : m \in ShortMagnitudes} \cup LongMagnitudes

GoodSuffixes ==
  {<<>>, <<"k">>, <<"M">>, <<"G">>, <<"k", "i">>, <<"M", "i">>, <<"G", "i">>}
BadSuffixes ==
  {<<"x">>, <<"K">>, <<"i">>, <<"x", "i">>, <<"k", "k">>, <<"k", "i", "k">>,
   <<"k", "B">>}

MaxTexts ==
  {MAX_SIZE_STR, MAX_SIZE_STR \o <<"x">>, MAX_SIZE_STR \o <<"i", "m", "u", "m">>,
   MAX_SIZE_STR \o <<"1", "k">>, <<"M", "a", "x">>, <<"m", "a">>, <<>>}

Texts ==
  {m \o x : m \in Magnitudes, x \in GoodSuffixes \cup BadSuffixes} \cup MaxTexts

ParserInit ==
  /\ s \in Texts
  /\ ret = Pending
  /\ HandlerIdle
  /\ opts = OptsAtStart
  /\ MainIdle

\* the call opts.size = get_size(optarg)
GetSize ==
  /\ ret = Pending
  /\ s \in Texts
  /\ ret' \in get_size(s)
  /\ UNCHANGED <<s, handlerVars, opts, mainVars>>

ParserNext == GetSize

SpecParser == ParserInit /\ [][ParserNext]_vars

-----------------------------------------------------------------------------
(* What the size grammar denotes, on decimal numerals (least significant   *)
(* digit first), independently of the 64-bit arithmetic above              *)

RECURSIVE Reverse(_)
Reverse(q) == IF q = <<>> THEN <<>> ELSE Reverse(Tail(q)) \o <<Head(q)>>

RECURSIVE DecNorm(_)
DecNorm(d) ==
  IF d # <<>> /\ d[Len(d)] = 0 THEN DecNorm(SubSeq(d, 1, Len(d) - 1)) ELSE d

RECURSIVE DecTimes(_, _, _)
DecTimes(d, m, carry) ==
  IF d = <<>>
  THEN (IF carry = 0 THEN <<>> ELSE <<carry % 10>> \o DecTimes(<<>>, m, carry \div 10))
  ELSE LET t == Head(d) * m + carry
       IN <<t % 10>> \o DecTimes(Tail(d), m, t \div 10)

RECURSIVE DecPower(_, _, _)
DecPower(d, m, j) == IF j = 0 THEN d ELSE DecPower(DecTimes(d, m, 0), m, j - 1)

RECURSIVE DecLeq(_, _)
DecLeq(a, b) ==
  IF Len(a) # Len(b) THEN Len(a) < Len(b)
  ELSE IF a = <<>> THEN TRUE
  ELSE IF a[Len(a)] # b[Len(b)] THEN a[Len(a)] < b[Len(b)]
  ELSE DecLeq(SubSeq(a, 1, Len(a) - 1), SubSeq(b, 1, Len(b) - 1))

\* the decimal numeral of a non-negative 64-bit number
RECURSIVE ToDec(_)
ToDec(x) ==
  IF IsZero64(x) THEN <<>>
  ELSE LET r == DivMod64(x, 10) IN <<r.rem>> \o ToDec(r.quot)

\* t is digits followed by one of the suffixes of the grammar
WellFormed(t) ==
  \E k \in 1..Len(t) :
    /\ \A i \in 1..k : IsDigit(t[i])
    /\ SubSeq(t, k + 1, Len(t)) \in GoodSuffixes

MagnitudeLen(t) ==
  CHOOSE k \in 1..Len(t) :
    /\ \A i \in 1..k : IsDigit(t[i])
    /\ SubSeq(t, k + 1, Len(t)) \in GoodSuffixes

MagnitudeOf(t) ==
  DecNorm(Reverse([i \in 1..MagnitudeLen(t) |-> DigitVal(t[i])]))

SuffixOf(t) == SubSeq(t, MagnitudeLen(t) + 1, Len(t))

SuffixLevel(x) ==
  IF x = <<>> THEN 0
  ELSE IF x[1] = "k" THEN 1 ELSE IF x[1] = "M" THEN 2 ELSE 3

SuffixBase(x) == IF Len(x) = 2 THEN 1024 ELSE 1000

\* N x 1000^j or N x 1024^j
Denoted(t) ==
  DecPower(MagnitudeOf(t), SuffixBase(SuffixOf(t)), SuffixLevel(SuffixOf(t)))

\* a positive magnitude with a suffix of the grammar whose value fits the
\* signed 64-bit size type
Representable(t) ==
  /\ WellFormed(t)
  /\ MagnitudeOf(t) # <<>>
  /\ DecLeq(Denoted(t), ToDec(LLONG_MAX))

InGrammar(t) == t = MAX_SIZE_STR \/ Representable(t)

\* C7: for every positive magnitude N and suffix of level j whose value fits
\* the size type, get_size returns N x 1000^j (k, M, G), N x 1024^j (ki, Mi,
\* Gi) or N (no suffix); and get_size("max") returns the LLONG_MAX sentinel.
C7_ParsedValue ==
  ret.kind # "pending" =>
    /\ s = MAX_SIZE_STR => ret = Size(LLONG_MAX)
    /\ Representable(s) =>
         /\ ret.kind = "size"
         /\ ~IsNeg64(ret.value)
         /\ ToDec(ret.value) = Denoted(s)

\* C7 witness: get_size("1Gi") has returned 1073741824 = 2^30
C7_Witness ==
  /\ s = <<"1", "G", "i">>
  /\ ret.kind = "size"
  /\ FitsNat(ret.value)
  /\ ToNat(ret.value) = 2^30

\* C8: for every text outside the grammar (zero or negative magnitude,
\* another suffix, a text that only begins with "max", a value that overflows
\* the signed 64-bit type) get_size fails: it ends in usage(1) and returns no
\* size.
C8_OutsideGrammarFails ==
  (ret.kind # "pending" /\ ~InGrammar(s)) => ret = Exit(1)

\* a text that only begins with "max" was taken for "max"
C8_MaxPrefixAccepted ==
  /\ s = MAX_SIZE_STR \o <<"x">>
  /\ ret = Size(LLONG_MAX)

\* an overflowing multiplication returned its wrapped product
C8_OverflowReturned ==
  /\ s = Chars(<<9,2,2,3,3,7,2,0,3,6,8,5,4,7,7,6>>) \o <<"k">>
  /\ ret.kind = "size"

-----------------------------------------------------------------------------
(* fatresize_handler and ask_for_option *)

\* PedExceptionOption of <parted/exception.h>: one bit per option
PED_EXCEPTION_UNHANDLED == 0
PED_EXCEPTION_FIX == 2^0
PED_EXCEPTION_YES == 2^1
PED_EXCEPTION_NO == 2^2
PED_EXCEPTION_OK == 2^3
PED_EXCEPTION_RETRY == 2^4
PED_EXCEPTION_IGNORE == 2^5
PED_EXCEPTION_CANCEL == 2^6
PED_EXCEPTION_OPTION_FIRST == PED_EXCEPTION_FIX
PED_EXCEPTION_IGNORE_CANCEL == PED_EXCEPTION_IGNORE + PED_EXCEPTION_CANCEL

AllOptions ==
  {PED_EXCEPTION_FIX, PED_EXCEPTION_YES, PED_EXCEPTION_NO, PED_EXCEPTION_OK,
   PED_EXCEPTION_RETRY, PED_EXCEPTION_IGNORE, PED_EXCEPTION_CANCEL}

ExceptionTypes ==
  {"INFORMATION", "WARNING", "ERROR", "FATAL", "BUG", "NO_FEATURE"}

\* options & i, for a single bit i
HasBit(options, i) == (options \div i) % 2 = 1

\* the for loop of option_get_next: the first bit at or above i that options holds
RECURSIVE ScanOptions(_, _)
ScanOptions(options, i) ==
  IF i > options THEN 0
  ELSE IF HasBit(options, i) THEN i
  ELSE ScanOptions(options, 2 * i)

\* a mutant of option_get_next: the scan resumes at current, not at current << 1
option_get_next_same_bit(options, current) ==
  ScanOptions(options,
              IF current = 0 THEN PED_EXCEPTION_OPTION_FIRST ELSE current)

option_get_next(options, current) ==
  ScanOptions(options,
              IF current = 0 THEN PED_EXCEPTION_OPTION_FIRST ELSE 2 * current)

\* ped_exception_get_option_string
OptionString(opt) ==
  CASE opt = PED_EXCEPTION_FIX -> <<"F", "i", "x">>
    [] opt = PED_EXCEPTION_YES -> <<"Y", "e", "s">>
    [] opt = PED_EXCEPTION_NO -> <<"N", "o">>
    [] opt = PED_EXCEPTION_OK -> <<"O", "K">>
    [] opt = PED_EXCEPTION_RETRY -> <<"R", "e", "t", "r", "y">>
    [] opt = PED_EXCEPTION_IGNORE -> <<"I", "g", "n", "o", "r", "e">>
    [] opt = PED_EXCEPTION_CANCEL -> <<"C", "a", "n", "c", "e", "l">>

UpperCase ==
  <<"A", "B", "C", "D", "E", "F", "G", "H", "I", "J", "K", "L", "M", "N", "O",
    "P", "Q", "R", "S", "T", "U", "V", "W", "X", "Y", "Z">>
LowerCase ==
  <<"a", "b", "c", "d", "e", "f", "g", "h", "i", "j", "k", "l", "m", "n", "o",
    "p", "q", "r", "s", "t", "u", "v", "w", "x", "y", "z">>

ToLower(c) ==
  IF \E i \in 1..26 : UpperCase[i] = c
  THEN LowerCase[CHOOSE i \in 1..26 : UpperCase[i] = c]
  ELSE c

\* strcasecmp(a, b) == 0
Strcasecmp0(a, b) ==
  /\ Len(a) = Len(b)
  /\ \A i \in 1..Len(a) : ToLower(a[i]) = ToLower(b[i])

\* the second for loop of ask_for_option: the first offered option, in
\* ascending order, whose string equals the buffer; 0 when none does
RECURSIVE MatchFrom(_, _, _)
MatchFrom(options, opt, buffer) ==
  IF opt = 0 THEN 0
  ELSE IF Strcasecmp0(buffer, OptionString(opt)) THEN opt
  ELSE MatchFrom(options, option_get_next(options, opt), buffer)

MatchOption(options, buffer) ==
  MatchFrom(options, option_get_next(options, 0), buffer)

\* buffer[line_len-1] = '\0': the last character getline delivered is dropped
Buffer(raw) == SubSeq(raw, 1, Len(raw) - 1)

\* the choice made under opts.force_yes (lines 316-329)
ForcedChoice(options) ==
  IF options = PED_EXCEPTION_IGNORE_CANCEL THEN PED_EXCEPTION_IGNORE
  ELSE LET opt == option_get_next(options, 0)
       IN IF option_get_next(options, opt) = 0 THEN opt
          ELSE PED_EXCEPTION_UNHANDLED

Confirmable(type) == type \in {"INFORMATION", "WARNING"}

\* the lines stdin may deliver, without their newline
LineTexts ==
  { <<"y", "e", "s">>, <<"Y", "E", "S">>, <<"y", "e">>, <<"y", "e", "s", "s">>,
    <<"N", "o">>, <<"o", "k">>, <<"f", "i", "x">>, <<"R", "e", "t", "r", "y">>,
    <<"i", "g", "n", "o", "r", "e">>, <<"c", "a", "n", "c", "e", "l">>,
    <<"q">>, <<>> }

Newline == "\n"

HandlerInit ==
  /\ ParserIdle
  /\ ex \in [type : ExceptionTypes, options : 1..(2 * PED_EXCEPTION_CANCEL - 1)]
  /\ mpc = "received"
  /\ line = <<>>
  /\ stdin_eof = FALSE
  /\ nread = 0
  /\ choice = 0
  /\ opts \in {[OptsAtStart EXCEPT !.force_yes = f] : f \in BOOLEAN}
  /\ MainIdle

\* fatresize_handler returns without prompting: the policy of -f for an
\* information or a warning, CANCEL for every other type
HandleWithoutPrompt ==
  /\ mpc = "received"
  /\ ~Confirmable(ex.type) \/ opts.force_yes
  /\ choice' = IF Confirmable(ex.type) THEN ForcedChoice(ex.options)
               ELSE PED_EXCEPTION_CANCEL
  /\ mpc' = "resolved"
  /\ UNCHANGED <<parserVars, ex, line, stdin_eof, nread, opts, mainVars>>

\* fatresize_handler calls ask_for_option, which prints the options and
\* blocks in getline
HandlePrompt ==
  /\ mpc = "received"
  /\ Confirmable(ex.type)
  /\ ~opts.force_yes
  /\ mpc' = "prompt"
  /\ UNCHANGED <<parserVars, ex, line, stdin_eof, nread, choice, opts, mainVars>>

\* getline delivers a line (only the last line of stdin may lack its
\* newline); ask_for_option returns the option it names or prompts again
ReadLine ==
  /\ mpc = "prompt"
  /\ ~stdin_eof
  /\ nread < MaxReads
  /\ \E text \in LineTexts, terminated \in BOOLEAN :
       LET raw == IF terminated THEN text \o <<Newline>> ELSE text
           opt == MatchOption(ex.options, Buffer(raw))
       IN /\ raw # <<>>
          /\ line' = raw
          /\ stdin_eof' = ~terminated
          /\ nread' = nread + 1
          /\ IF opt # 0
             THEN choice' = opt /\ mpc' = "resolved"
             ELSE choice' = choice /\ mpc' = "prompt"
  /\ UNCHANGED <<parserVars, ex, opts, mainVars>>

\* getline returns -1: ask_for_option returns PED_EXCEPTION_CANCEL
ReadEndOfInput ==
  /\ mpc = "prompt"
  /\ line' = <<>>
  /\ stdin_eof' = TRUE
  /\ nread' = nread + 1
  /\ choice' = PED_EXCEPTION_CANCEL
  /\ mpc' = "resolved"
  /\ UNCHANGED <<parserVars, ex, opts, mainVars>>

HandlerNext ==
  \/ HandleWithoutPrompt
  \/ HandlePrompt
  \/ ReadLine
  \/ ReadEndOfInput

SpecHandler == HandlerInit /\ [][HandlerNext]_vars

\* the offered options, as a set
Offered(options) == {o \in AllOptions : HasBit(options, o)}

\* the text of a line as the user typed it: without its newline, if it has one
Typed(raw) ==
  IF raw # <<>> /\ raw[Len(raw)] = Newline THEN Buffer(raw) ELSE raw

Names(options, text) ==
  {o \in Offered(options) : Strcasecmp0(text, OptionString(o))}

\* C5: under the force-accept policy an information or a warning is resolved
\* without reading input: to IGNORE when exactly {IGNORE, CANCEL} is offered,
\* to the offered option when exactly one is offered, to UNHANDLED otherwise.
C5_ForcedResolution ==
  (opts.force_yes /\ Confirmable(ex.type)) =>
    /\ mpc # "prompt"
    /\ nread = 0
    /\ mpc = "resolved" =>
         choice = IF Offered(ex.options) = {PED_EXCEPTION_IGNORE, PED_EXCEPTION_CANCEL}
                  THEN PED_EXCEPTION_IGNORE
                  ELSE IF Cardinality(Offered(ex.options)) = 1
                  THEN CHOOSE o \in Offered(ex.options) : TRUE
                  ELSE PED_EXCEPTION_UNHANDLED

\* C5 witness: a warning offering {IGNORE, CANCEL} was resolved to IGNORE under -f
C5_Witness ==
  /\ opts.force_yes
  /\ ex = [type |-> "WARNING", options |-> PED_EXCEPTION_IGNORE_CANCEL]
  /\ mpc = "resolved"
  /\ choice = PED_EXCEPTION_IGNORE

\* C6: without force-accept, an information or a warning prompts again only
\* after a line that names no offered option, resolves to the offered option
\* the line names (case-insensitively, also for a last line without newline),
\* and resolves to CANCEL otherwise only at end of input.
C6_PromptResolution ==
  (~opts.force_yes /\ Confirmable(ex.type)) =>
    /\ (mpc = "prompt" /\ nread > 0) => Names(ex.options, Typed(line)) = {}
    /\ mpc = "resolved" =>
         \/ line = <<>> /\ choice = PED_EXCEPTION_CANCEL
         \/ line # <<>> /\ choice \in Names(ex.options, Typed(line))

\* a last line "yes" without newline was not taken for Yes
C6_UnterminatedLineLost ==
  /\ ~opts.force_yes
  /\ Confirmable(ex.type)
  /\ HasBit(ex.options, PED_EXCEPTION_YES)
  /\ line = <<"y", "e", "s">>
  /\ mpc = "prompt"

-----------------------------------------------------------------------------
(* Geometry, the display unit and the partition table (libparted) *)

\* dev->sector_size
SectorSize == 512

\* ped_geometry_init / ped_geometry_new: start and length give the end
Geometry(start, length) ==
  [start |-> start, end |-> start + length - 1, length |-> length]

\* ped_geometry_test_sector_inside
Inside(range, sector) == range.start <= sector /\ sector <= range.end

\* every geometry on the device
AllGeometries ==
  {g \in {Geometry(a, n) : a \in 0..(DevLength - 1), n \in 1..DevLength} :
     g.end < DevLength}

\* a partition table: its entries (partitions and free space alike) tile the
\* device in ascending order; entry i carries partition number i
RECURSIVE Tilings(_, _)
Tilings(from, parts) ==
  {<<Geometry(from, DevLength - from)>>} \cup
  (IF parts > 1
   THEN UNION {{<<Geometry(from, n)>> \o rest : rest \in Tilings(from + n, parts - 1)} :
                 n \in 1..(DevLength - from - 1)}
   ELSE {})

Tables == Tilings(0, MaxParts)

\* ped_disk_get_partition_by_sector: the geometry of the entry that holds the
\* sector, NoGeometry for NULL
PartitionBySector(t, sector) ==
  IF \E i \in 1..Len(t) : Inside(t[i], sector)
  THEN t[CHOOSE i \in 1..Len(t) : Inside(t[i], sector)]
  ELSE NoGeometry

\* ped_unit_format in the default (compact) unit: the sector rounded to the
\* nearest step of the display unit
ped_unit_format(sector) == (sector + UnitSectors \div 2) \div UnitSectors

Clip(sector) ==
  IF sector < 0 THEN 0 ELSE IF sector > DevLength - 1 THEN DevLength - 1 ELSE sector

UnitRadius ==
  IF UnitSectors \div 2 - 1 < 0 THEN 0 ELSE UnitSectors \div 2 - 1

\* ped_unit_parse: the sector the text names, clipped to the device, and the
\* range of sectors the text may stand for; range is NoGeometry when the
\* sector lies too far outside the device, and the call then fails
ped_unit_parse(str) ==
  LET sector == str * UnitSectors
      first == Clip(sector - UnitRadius)
      last == Clip(sector + UnitRadius)
  IN [sector |-> Clip(sector),
      range |-> IF sector - last > UnitRadius \/ first - sector > UnitRadius
                THEN NoGeometry
                ELSE Geometry(first, last - first + 1)]

\* a mutant of SameDisplay: the end range is always derived by ped_unit_parse
SameDisplayNever(a, b) == FALSE

\* !strcmp(old_str, def_str) (line 636)
SameDisplay(a, b) == ped_unit_format(a) = ped_unit_format(b)

\* opts.size / dev->sector_size, on long long (the quotient truncates to zero)
SizeSectors(size) ==
  IF IsNeg64(size)
  THEN 0 - ToNat(DivMod64(Neg64(size), SectorSize).quot)
  ELSE ToNat(DivMod64(size, SectorSize).quot)

-----------------------------------------------------------------------------
(* snap, try_snap and snap_to_boundaries *)

\* try_snap: the candidates are tried in order up to the terminating -1; snap
\* asserts that the sector lies in the range, and adopts the first candidate
\* that does.  failed: the assertion of snap did not hold.
RECURSIVE try_snap(_, _, _)
try_snap(sector, range, candidates) ==
  IF candidates = <<>> \/ Head(candidates) = -1
  THEN [sector |-> sector, failed |-> FALSE]
  ELSE IF ~Inside(range, sector) THEN [sector |-> sector, failed |-> TRUE]
  ELSE IF Inside(range, Head(candidates))
       THEN [sector |-> Head(candidates), failed |-> FALSE]
  ELSE try_snap(sector, range, Tail(candidates))

StartCandidates(old_geom, start_part) ==
  IF old_geom # NoGeometry
  THEN <<old_geom.start, start_part.start, start_part.end + 1, -1>>
  ELSE <<start_part.start, start_part.end + 1, -1>>

EndCandidates(old_geom, end_part) ==
  IF old_geom # NoGeometry
  THEN <<old_geom.end, end_part.end, end_part.start - 1, -1>>
  ELSE <<end_part.end, end_part.start - 1, -1>>

\* snap_to_boundaries, given what the two lookups in the disk returned.
\* assert names the FAT_ASSERT that did not hold ("none": all held); with
\* DEBUG defined (lines 20-23) PED_ASSERT aborts the process there.
snap_to_boundaries(new_geom, old_geom, start_part, end_part, start_range, end_range) ==
  LET st == try_snap(new_geom.start, start_range, StartCandidates(old_geom, start_part))
      en == try_snap(new_geom.end, end_range, EndCandidates(old_geom, end_part))
  IN IF start_part = NoGeometry THEN [geom |-> new_geom, assert |-> "start_part"]
     ELSE IF end_part = NoGeometry THEN [geom |-> new_geom, assert |-> "none"]
     ELSE IF st.failed THEN [geom |-> new_geom, assert |-> "snap_start"]
     ELSE IF en.failed THEN [geom |-> new_geom, assert |-> "snap_end"]
     ELSE IF st.sector > en.sector THEN [geom |-> new_geom, assert |-> "start_le_end"]
     ELSE [geom |-> Geometry(st.sector, en.sector - st.sector + 1), assert |-> "none"]

-----------------------------------------------------------------------------
(* main: the option loop *)

\* the texts -s is given in the runs of main
SizeTexts ==
  {MAX_SIZE_STR, <<"0">>, <<"1", "x">>} \cup
  {<<d>> \o x : d \in {"1", "2", "3", "4"}, x \in {<<"k">>, <<"k", "i">>}}

\* the process ends with this status
Ends(code, how) ==
  /\ pc' = "exited"
  /\ exit_code' = code
  /\ outcome' = how

\* abort() after a failed PED_ASSERT, and a fault on a wild pointer
SIGABRT == 128 + 6
SIGSEGV == 128 + 11

InOptionLoop == pc \in {"start", "args"}

\* argc < 2: usage(0)
NoArguments ==
  /\ pc = "start"
  /\ Ends(0, "usage")
  /\ UNCHANGED <<parserVars, handlerVars, opts, dev, table, held, geo, fx>>

\* what get_device leaves in opts: nothing (no such file, or no device
\* behind it), the device, or the device and the partition number its name
\* ends in (taken only when -n gave none before)
get_device(o) ==
  {o, [o EXCEPT !.device = TRUE]} \cup
  {[o EXCEPT !.device = TRUE, !.pnum = IF o.pnum < 0 THEN k ELSE o.pnum] :
     k \in 1..(MaxParts + 1)}

\* case 1: a non-option argument
ArgDevice ==
  /\ InOptionLoop
  /\ ~opts.device
  /\ opts' \in get_device(opts)
  /\ pc' = "args"
  /\ UNCHANGED <<parserVars, handlerVars, dev, table, held, geo, fx, exit_code, outcome>>

\* case 1 with opts.device set: usage(1)
ArgSecondDevice ==
  /\ InOptionLoop
  /\ opts.device
  /\ Ends(1, "extra_device")
  /\ UNCHANGED <<parserVars, handlerVars, opts, dev, table, held, geo, fx>>

\* -n NUM
ArgPartition ==
  /\ InOptionLoop
  /\ \E n \in 0..(MaxParts + 1) : opts' = [opts EXCEPT !.pnum = n]
  /\ pc' = "args"
  /\ UNCHANGED <<parserVars, handlerVars, dev, table, held, geo, fx, exit_code, outcome>>

\* -f
ArgForce ==
  /\ InOptionLoop
  /\ opts' = [opts EXCEPT !.force_yes = TRUE]
  /\ pc' = "args"
  /\ UNCHANGED <<parserVars, handlerVars, dev, table, held, geo, fx, exit_code, outcome>>

\* -i
ArgInfo ==
  /\ InOptionLoop
  /\ opts' = [opts EXCEPT !.info = TRUE]
  /\ pc' = "args"
  /\ UNCHANGED <<parserVars, handlerVars, dev, table, held, geo, fx, exit_code, outcome>>

\* -s SIZE: opts.size = get_size(optarg)
ArgSize ==
  /\ InOptionLoop
  /\ \E text \in SizeTexts : \E r \in get_size(text) :
       CASE r.kind = "size" ->
              /\ opts' = [opts EXCEPT !.size = r.value]
              /\ pc' = "args"
              /\ UNCHANGED <<exit_code, outcome>>
         [] r.kind = "exit" ->
              /\ Ends(r.code, "bad_size")
              /\ UNCHANGED opts
         [] OTHER ->
              /\ Ends(SIGABRT, "trap")
              /\ UNCHANGED opts
  /\ UNCHANGED <<parserVars, handlerVars, dev, table, held, geo, fx>>

\* -p, -v, -q: they set opts.progress and opts.verbose, which decide only
\* what is printed
ArgOutput ==
  /\ InOptionLoop
  /\ pc' = "args"
  /\ UNCHANGED <<parserVars, handlerVars, opts, dev, table, held, geo, fx, exit_code, outcome>>

\* -h: usage(0)
ArgHelp ==
  /\ InOptionLoop
  /\ Ends(0, "help")
  /\ UNCHANGED <<parserVars, handlerVars, opts, dev, table, held, geo, fx>>

\* '?', what getopt_long returns for an option it does not know or for a
\* missing argument: the same case as -h, usage(0)
ArgUnknown ==
  /\ InOptionLoop
  /\ Ends(0, "bad_option")
  /\ UNCHANGED <<parserVars, handlerVars, opts, dev, table, held, geo, fx>>

\* getopt_long returns -1 (lines 536-551)
ArgsEnd ==
  /\ pc = "args"
  /\ IF ~opts.device THEN Ends(1, "no_device")
     ELSE IF IsZero64(opts.size) /\ ~opts.info THEN Ends(1, "no_size")
     ELSE pc' = "device_get" /\ UNCHANGED <<exit_code, outcome>>
  /\ UNCHANGED <<parserVars, handlerVars, opts, dev, table, held, geo, fx>>

-----------------------------------------------------------------------------
(* main: from the device to the constraint query *)

\* opts.pnum > 0: the run works on a partition of a disk (lines 564, 676,
\* 697); otherwise on the whole device
OnPartition(o) == o.pnum > 0

\* the guard of the first ped_file_system_open (line 598)
QueriesFirst(o) == o.info \/ o.size = LLONG_MAX

\* where main continues once part_geom is set
AfterTarget(o) == IF QueriesFirst(o) THEN "fs_open" ELSE "range_start"

\* ped_device_get (lines 553-557)
DeviceGet ==
  /\ pc = "device_get"
  /\ \E ok \in BOOLEAN :
       IF ok
       THEN /\ dev' = DevLength
            /\ held' = [held EXCEPT !.dev = TRUE]
            /\ pc' = "device_open"
            /\ UNCHANGED <<exit_code, outcome>>
       ELSE /\ Ends(1, "device_get")
            /\ UNCHANGED <<dev, held>>
  /\ UNCHANGED <<parserVars, handlerVars, opts, table, geo, fx>>

\* ped_device_open (lines 559-562)
DeviceOpen ==
  /\ pc = "device_open"
  /\ \E ok \in BOOLEAN :
       IF ok
       THEN /\ held' = [held EXCEPT !.dev_open = TRUE]
            /\ pc' = IF OnPartition(opts) THEN "disk_new" ELSE "geometry_init"
            /\ UNCHANGED <<exit_code, outcome>>
       ELSE /\ Ends(1, "device_open")
            /\ UNCHANGED held
  /\ UNCHANGED <<parserVars, handlerVars, opts, dev, table, geo, fx>>

\* ped_disk_new reads the partition table (lines 565-569)
DiskNew ==
  /\ pc = "disk_new"
  /\ \/ /\ table' \in Tables
        /\ held' = [held EXCEPT !.disk = TRUE]
        /\ pc' = "get_partition"
        /\ UNCHANGED <<exit_code, outcome>>
     \/ /\ Ends(1, "disk_new")
        /\ UNCHANGED <<table, held>>
  /\ UNCHANGED <<parserVars, handlerVars, opts, dev, geo, fx>>

FsTypes == {"fat", "other", "none"}

\* ped_disk_get_partition and the checks of part->fs_type (lines 571-582)
GetPartition ==
  /\ pc = "get_partition"
  /\ \E fs_type \in FsTypes :
       IF opts.pnum > Len(table) \/ fs_type = "none"
       THEN Ends(1, "no_partition") /\ UNCHANGED geo
       ELSE IF fs_type # "fat"
       THEN Ends(1, "not_fat") /\ UNCHANGED geo
       ELSE /\ geo' = [geo EXCEPT !.part = opts.pnum]
            /\ pc' = "warn_busy"
            /\ UNCHANGED <<exit_code, outcome>>
  /\ UNCHANGED <<parserVars, handlerVars, opts, dev, table, held, fx>>

\* partition_warn_busy, and the copy of part->geom (lines 584-588)
WarnBusy ==
  /\ pc = "warn_busy"
  /\ \E busy \in BOOLEAN :
       IF busy
       THEN /\ held' = [held EXCEPT !.disk = FALSE]
            /\ Ends(1, "busy")
            /\ UNCHANGED geo
       ELSE /\ geo' = [geo EXCEPT !.part_geom = table[geo.part]]
            /\ pc' = AfterTarget(opts)
            /\ UNCHANGED <<held, exit_code, outcome>>
  /\ UNCHANGED <<parserVars, handlerVars, opts, dev, table, fx>>

\* ped_geometry_init(&part_geom, dev, 0, dev->length) (lines 590-592)
GeometryInit ==
  /\ pc = "geometry_init"
  /\ IF dev < 1
     THEN Ends(1, "geometry_init") /\ UNCHANGED geo
     ELSE /\ geo' = [geo EXCEPT !.part_geom = Geometry(0, dev)]
          /\ pc' = AfterTarget(opts)
          /\ UNCHANGED <<exit_code, outcome>>
  /\ UNCHANGED <<parserVars, handlerVars, opts, dev, table, held, fx>>

\* the first ped_file_system_open (lines 599-603)
FsOpen ==
  /\ pc = "fs_open"
  /\ \E ok \in BOOLEAN :
       IF ok
       THEN /\ held' = [held EXCEPT !.fs = @ + 1]
            /\ pc' = "get_constraint"
            /\ UNCHANGED <<exit_code, outcome>>
       ELSE /\ Ends(1, "fs_open")
            /\ UNCHANGED held
  /\ UNCHANGED <<parserVars, handlerVars, opts, dev, table, geo, fx>>

\* a mutant of InfoMode: -i is honoured only when no size was given
InfoModeWithoutSize(o) == o.info /\ IsZero64(o.size)

\* if (opts.info) (line 611)
InfoMode(o) == o.info

\* ped_file_system_get_resize_constraint (lines 605-609)
GetConstraint ==
  /\ pc = "get_constraint"
  /\ \/ \E max_size \in 1..dev :
          /\ geo' = [geo EXCEPT !.max_size = max_size]
          /\ held' = [held EXCEPT !.constraints = @ + 1]
          /\ fx' = [fx EXCEPT !.queried = TRUE]
          /\ pc' = IF InfoMode(opts) THEN "print_info"
                   ELSE IF opts.size = LLONG_MAX THEN "max_size"
                   ELSE "range_start"
          /\ UNCHANGED <<exit_code, outcome>>
     \/ /\ Ends(1, "get_constraint")
        /\ UNCHANGED <<geo, held, fx>>
  /\ UNCHANGED <<parserVars, handlerVars, opts, dev, table>>

\* the sizes are printed, the constraint destroyed, return 0 (lines 611-619)
PrintInfo ==
  /\ pc = "print_info"
  /\ fx' = [fx EXCEPT !.printed = TRUE]
  /\ held' = [held EXCEPT !.constraints = @ - 1]
  /\ Ends(0, "info")
  /\ UNCHANGED <<parserVars, handlerVars, opts, dev, table, geo>>

\* opts.size = constraint->max_size * dev->sector_size (lines 620-623)
UseMaxSize ==
  /\ pc = "max_size"
  /\ opts' = [opts EXCEPT !.size = FromNat(geo.max_size * SectorSize)]
  /\ held' = [held EXCEPT !.constraints = @ - 1]
  /\ pc' = "range_start"
  /\ UNCHANGED <<parserVars, handlerVars, dev, table, geo, fx, exit_code, outcome>>

-----------------------------------------------------------------------------
(* main: the new geometry and its ranges *)

\* end = part_geom.start + opts.size / dev->sector_size (line 632)
NewEnd(o, part_geom) == part_geom.start + SizeSectors(o.size)

\* range_start = ped_geometry_new(dev, start, 1) (lines 625-630)
RangeStart ==
  /\ pc = "range_start"
  /\ \E ok \in BOOLEAN :
       IF ok
       THEN /\ geo' = [geo EXCEPT !.start = geo.part_geom.start,
                                  !.range_start = Geometry(geo.part_geom.start, 1)]
            /\ pc' = "range_end"
            /\ UNCHANGED <<exit_code, outcome>>
       ELSE /\ geo' = [geo EXCEPT !.start = geo.part_geom.start]
            /\ Ends(1, "range_start")
  /\ UNCHANGED <<parserVars, handlerVars, opts, dev, table, held, fx>>

\* lines 632-645: the new end; when it displays like the old end, the end
\* range is the old end alone, otherwise ped_unit_parse gives the end and
\* its range
RangeEnd ==
  /\ pc = "range_end"
  /\ LET end == NewEnd(opts, geo.part_geom)
         parsed == ped_unit_parse(ped_unit_format(end))
     IN IF SameDisplay(geo.part_geom.end, end)
        THEN \E ok \in BOOLEAN :
               IF ok
               THEN /\ geo' = [geo EXCEPT !.end = end,
                                          !.range_end = Geometry(geo.part_geom.end, 1)]
                    /\ pc' = "duplicate"
                    /\ UNCHANGED <<exit_code, outcome>>
               ELSE /\ geo' = [geo EXCEPT !.end = end]
                    /\ Ends(1, "range_end")
        ELSE IF parsed.range = NoGeometry
        THEN /\ geo' = [geo EXCEPT !.end = parsed.sector]
             /\ Ends(1, "unit_parse")
        ELSE /\ geo' = [geo EXCEPT !.end = parsed.sector, !.range_end = parsed.range]
             /\ pc' = "duplicate"
             /\ UNCHANGED <<exit_code, outcome>>
  /\ UNCHANGED <<parserVars, handlerVars, opts, dev, table, held, fx>>

\* old_geom = ped_geometry_duplicate(&part_geom) (lines 647-651)
DuplicateGeometry ==
  /\ pc = "duplicate"
  /\ \E ok \in BOOLEAN :
       IF ok
       THEN pc' = "new_geom" /\ UNCHANGED <<exit_code, outcome>>
       ELSE Ends(1, "duplicate")
  /\ UNCHANGED <<parserVars, handlerVars, opts, dev, table, held, geo, fx>>

\* the length handed to ped_geometry_init(&new_geom, ...) (line 654)
NewLength(start, end) == end - start + 1

\* ped_geometry_init(&new_geom, dev, start, end - start + 1) (lines 653-656):
\* it fails for a length below 1
InitNewGeometry ==
  /\ pc = "new_geom"
  /\ IF NewLength(geo.start, geo.end) < 1
     THEN Ends(1, "new_geom") /\ UNCHANGED geo
     ELSE /\ geo' = [geo EXCEPT !.new_geom = Geometry(geo.start, NewLength(geo.start, geo.end))]
          /\ pc' = "snap"
          /\ UNCHANGED <<exit_code, outcome>>
  /\ UNCHANGED <<parserVars, handlerVars, opts, dev, table, held, fx>>

\* what a ped_disk_get_partition_by_sector call may return: the entry of the
\* table when main holds a disk; on the whole device, disk was never
\* assigned and the call reads a wild pointer, so that it returns anything
Lookups(sector) ==
  IF OnPartition(opts) THEN {PartitionBySector(table, sector)}
  ELSE AllGeometries \cup {NoGeometry}

\* snap_to_boundaries(&new_geom, &part_geom, disk, range_start, range_end)
\* (lines 658-659)
Snap ==
  /\ pc = "snap"
  /\ \E start_part \in Lookups(geo.new_geom.start), end_part \in Lookups(geo.new_geom.end) :
       LET r == snap_to_boundaries(geo.new_geom, geo.part_geom, start_part, end_part,
                                   geo.range_start, geo.range_end)
       IN IF r.assert = "none"
          THEN /\ geo' = [geo EXCEPT !.new_geom = r.geom]
               /\ pc' = "fs_reopen"
               /\ UNCHANGED <<exit_code, outcome>>
          ELSE /\ Ends(SIGABRT, r.assert)
               /\ UNCHANGED geo
  /\ UNCHANGED <<parserVars, handlerVars, opts, dev, table, held, fx>>

\* on the whole device the wild disk pointer may also fault
SnapFaults ==
  /\ pc = "snap"
  /\ ~OnPartition(opts)
  /\ Ends(SIGSEGV, "fault")
  /\ UNCHANGED <<parserVars, handlerVars, opts, dev, table, held, geo, fx>>

-----------------------------------------------------------------------------
(* main: the resize *)

\* the geometry ped_file_system_open(&part->geom) reads (line 662): that of
\* the partition; on the whole device part was never assigned and the
\* geometry is whatever a wild pointer leads to
ReopenGeometries ==
  IF OnPartition(opts) THEN {table[geo.part]} ELSE AllGeometries

\* fs = ped_file_system_open(&part->geom) (lines 661-665)
FsReopen ==
  /\ pc = "fs_reopen"
  /\ \E g \in ReopenGeometries, ok \in BOOLEAN :
       IF ok
       THEN /\ geo' = [geo EXCEPT !.fs_geom = g]
            /\ held' = [held EXCEPT !.fs = @ + 1]
            /\ pc' = "intersect"
            /\ UNCHANGED <<exit_code, outcome>>
       ELSE /\ Ends(1, "fs_reopen")
            /\ UNCHANGED <<geo, held>>
  /\ UNCHANGED <<parserVars, handlerVars, opts, dev, table, fx>>

\* on the whole device the wild part pointer may also fault
FsReopenFaults ==
  /\ pc = "fs_reopen"
  /\ ~OnPartition(opts)
  /\ Ends(SIGSEGV, "fault")
  /\ UNCHANGED <<parserVars, handlerVars, opts, dev, table, held, geo, fx>>

\* constraint_intersect_and_destroy of the filesystem's constraint and
\* constraint_from_start_end (lines 667-673): both operands are destroyed,
\* the intersection is a new constraint or NULL
Intersect ==
  /\ pc = "intersect"
  /\ \E feasible \in BOOLEAN :
       IF feasible
       THEN /\ held' = [held EXCEPT !.constraints = @ + 1]
            /\ pc' = IF OnPartition(opts) THEN "set_geom" ELSE "resize"
            /\ UNCHANGED <<exit_code, outcome>>
       ELSE /\ Ends(1, "intersect")
            /\ UNCHANGED held
  /\ UNCHANGED <<parserVars, handlerVars, opts, dev, table, geo, fx>>

\* ped_disk_set_partition_geom (lines 676-685)
SetPartitionGeom ==
  /\ pc = "set_geom"
  /\ \E ok \in BOOLEAN :
       IF ok
       THEN /\ fx' = [fx EXCEPT !.set_geom = @ + 1, !.geom_ok = TRUE]
            /\ pc' = "resize"
            /\ UNCHANGED <<held, exit_code, outcome>>
       ELSE /\ fx' = [fx EXCEPT !.set_geom = @ + 1]
            /\ held' = [held EXCEPT !.fs = @ - 1, !.constraints = @ - 1]
            /\ Ends(1, "set_geom")
  /\ UNCHANGED <<parserVars, handlerVars, opts, dev, table, geo>>

\* a mutant of CommitsTable: the table is committed whatever the target
CommitsAlways(o) == TRUE

\* if (opts.pnum > 0) before ped_disk_commit (line 703)
CommitsTable(o) == OnPartition(o)

\* ped_file_system_resize; on success ped_partition_set_system for a
\* partition, ped_file_system_close and ped_constraint_destroy (lines 687-701)
Resize ==
  /\ pc = "resize"
  /\ \E ok \in BOOLEAN :
       IF ok
       THEN /\ fx' = [fx EXCEPT !.resize = @ + 1, !.resize_ok = TRUE,
                                !.set_system = IF OnPartition(opts) THEN @ + 1 ELSE @]
            /\ held' = [held EXCEPT !.fs = @ - 1, !.constraints = @ - 1]
            /\ pc' = IF CommitsTable(opts) THEN "commit" ELSE "finish"
            /\ UNCHANGED <<exit_code, outcome>>
       ELSE /\ fx' = [fx EXCEPT !.resize = @ + 1]
            /\ Ends(1, "resize")
            /\ UNCHANGED held
  /\ UNCHANGED <<parserVars, handlerVars, opts, dev, table, geo>>

\* ped_disk_commit and ped_disk_destroy (lines 703-709)
Commit ==
  /\ pc = "commit"
  /\ \E ok \in BOOLEAN :
       IF ok
       THEN /\ held' = [held EXCEPT !.disk = FALSE]
            /\ pc' = "finish"
            /\ UNCHANGED <<exit_code, outcome>>
       ELSE /\ Ends(1, "commit")
            /\ UNCHANGED held
  /\ fx' = [fx EXCEPT !.commit = @ + 1]
  /\ UNCHANGED <<parserVars, handlerVars, opts, dev, table, geo>>

\* the boot loader advisory, ped_device_close, return 0 (lines 711-720)
Finish ==
  /\ pc = "finish"
  /\ held' = [held EXCEPT !.dev_open = FALSE]
  /\ Ends(0, "resized")
  /\ UNCHANGED <<parserVars, handlerVars, opts, dev, table, geo, fx>>

-----------------------------------------------------------------------------
(* The program *)

Init ==
  /\ ParserIdle
  /\ HandlerIdle
  /\ opts = OptsAtStart
  /\ pc = "start"
  /\ dev = 0
  /\ table = <<>>
  /\ held = NoHandles
  /\ geo = NoLocals
  /\ fx = NoRequests
  /\ exit_code = -1
  /\ outcome = "running"

Next ==
  \/ NoArguments
  \/ ArgDevice
  \/ ArgSecondDevice
  \/ ArgPartition
  \/ ArgForce
  \/ ArgInfo
  \/ ArgSize
  \/ ArgOutput
  \/ ArgHelp
  \/ ArgUnknown
  \/ ArgsEnd
  \/ DeviceGet
  \/ DeviceOpen
  \/ DiskNew
  \/ GetPartition
  \/ WarnBusy
  \/ GeometryInit
  \/ FsOpen
  \/ GetConstraint
  \/ PrintInfo
  \/ UseMaxSize
  \/ RangeStart
  \/ RangeEnd
  \/ DuplicateGeometry
  \/ InitNewGeometry
  \/ Snap
  \/ SnapFaults
  \/ FsReopen
  \/ FsReopenFaults
  \/ Intersect
  \/ SetPartitionGeom
  \/ Resize
  \/ Commit
  \/ Finish

Spec == Init /\ [][Next]_vars

-----------------------------------------------------------------------------
(* Properties of main *)

Exited == pc = "exited"

AfterSnap == pc \in {"fs_reopen", "intersect", "set_geom", "resize", "commit", "finish"}

SnapAssertions == {"start_part", "snap_start", "snap_end", "start_le_end"}

\* C1: the partition table is committed at most once, and only after the
\* partition-geometry change and the filesystem resize of the same run both
\* succeeded; a run that failed before never requested a commit; on the
\* whole device (no partition number) commit is never requested.
C1_CommitOnlyAfterSuccess ==
  /\ fx.commit <= 1
  /\ fx.commit = 1 => (fx.geom_ok /\ fx.resize_ok /\ OnPartition(opts))
  /\ ~OnPartition(opts) => fx.commit = 0
  /\ (Exited /\ outcome \notin {"resized", "commit"}) => fx.commit = 0

\* C1 witness: a run on a partition changed the geometry, resized the
\* filesystem, committed once and ended with status 0
C1_Witness ==
  /\ Exited
  /\ outcome = "resized"
  /\ fx.commit = 1
  /\ fx.set_geom = 1
  /\ fx.resize = 1

\* C2: with -i set (with or without a size), no partition-geometry change,
\* filesystem resize, type change or commit is ever requested, also on the
\* runs that fail; and once the filesystem was opened and its constraint
\* obtained, the run prints the sizes and ends with status 0.
C2_InfoChangesNothing ==
  opts.info =>
    /\ fx.set_geom = 0 /\ fx.resize = 0 /\ fx.set_system = 0 /\ fx.commit = 0
    /\ fx.queried =>
         \/ pc = "print_info"
         \/ Exited /\ exit_code = 0 /\ outcome = "info" /\ fx.printed

\* C2 witness: -i together with -s max printed the sizes and ended with 0
C2_Witness ==
  /\ opts.info
  /\ opts.size = LLONG_MAX
  /\ Exited
  /\ exit_code = 0
  /\ fx.printed

\* C3: a run ends with status 0 only after a completed resize or a completed
\* info run, and with status 1 after every failure (the runs that print the
\* usage text on request or for an empty command line are left aside).
C3_ExitCodes ==
  (Exited /\ outcome \notin {"help", "usage"}) =>
    exit_code = IF outcome \in {"resized", "info"} THEN 0 ELSE 1

\* an unrecognised option ended the run with status 0
C3_BadOptionExitsZero ==
  /\ Exited
  /\ outcome = "bad_option"
  /\ exit_code = 0

\* C4: when a run ends in failure, it holds no handle it acquired: the
\* device is closed, the disk destroyed, every filesystem closed and every
\* constraint destroyed.
C4_FailureReleasesHandles ==
  (Exited /\ exit_code # 0) =>
    /\ ~held.dev_open
    /\ ~held.disk
    /\ held.fs = 0
    /\ held.constraints = 0

\* a partition that is not FAT ended the run with the device open and the
\* disk not destroyed
C4_NotFatLeaks ==
  /\ Exited
  /\ outcome = "not_fat"
  /\ held.dev_open
  /\ held.disk

\* C9: when the computed new end sector equals the partition's end sector,
\* the range derivation followed by snap_to_boundaries yields the original
\* range: same start, same end, same length.
C9_NoOpKeepsRange ==
  (AfterSnap /\ NewEnd(opts, geo.part_geom) = geo.part_geom.end) =>
    geo.new_geom = geo.part_geom

\* C9 witness: a partition with a neighbour on each side went through the
\* snapper with a request for its own end
C9_Witness ==
  /\ pc = "fs_reopen"
  /\ OnPartition(opts)
  /\ Len(table) = 3
  /\ geo.part = 2
  /\ NewEnd(opts, geo.part_geom) = geo.part_geom.end
  /\ geo.new_geom = geo.part_geom

\* C10: in a run on a partition of a disk, no assertion of the snapper
\* fails: the partition holding the new start exists, the coordinate given
\* to snap lies in its range, and start <= end after snapping.
C10_NoAssertionFails ==
  ~(Exited /\ OnPartition(opts) /\ outcome \in SnapAssertions)

\* the new end displays like the old end, the end range is the old end
\* alone, and snap's assertion on the new end failed
C10_PinnedEndOutsideRange ==
  /\ Exited
  /\ OnPartition(opts)
  /\ outcome = "snap_end"
  /\ geo.range_end = Geometry(geo.part_geom.end, 1)
  /\ geo.new_geom.end # geo.part_geom.end

\* C11: in a run that resizes, the filesystem is reopened on the range the
\* run resolved as its target (the partition's range with a partition
\* index, the whole device without one), and a run on the whole device never
\* reads a disk or partition record: it does not fault on one, and what it
\* reopens is the whole-device range.
C11_ReopenOnTarget ==
  /\ (pc \in {"intersect", "set_geom", "resize", "commit", "finish"} /\ ~InfoMode(opts))
       => geo.fs_geom = geo.part_geom
  /\ ~(Exited /\ ~OnPartition(opts) /\ outcome = "fault")

\* a run on the whole device has reopened the filesystem on a range that is
\* not the whole device
C11_WholeDeviceReopensElsewhere ==
  /\ pc = "intersect"
  /\ ~OnPartition(opts)
  /\ ~InfoMode(opts)
  /\ geo.part_geom = Geometry(0, dev)
  /\ geo.fs_geom # geo.part_geom

====
